---- MODULE Spec2Model ----
(***************************************************************************)
(* Model of src/taskpane/taskpane.ts: the auto-tag rule engine of the      *)
(* Tiller Excel add-in (Rule, Transaction, runRules, scrapeTags) and the   *)
(* promise chain of main() that loads, tags and writes back.               *)
(*                                                                         *)
(* Text is a sequence of one-character strings, so that includes, split,   *)
(* join, the two amount regular expressions and parseFloat are computed    *)
(* character by character.  Fields that the program only ever compares    *)
(* for equality (category, transactionId) are plain strings.               *)
(***************************************************************************)
EXTENDS Integers, Sequences, FiniteSets, TLC

VARIABLES
    \* --- Rule.matchAmount called on its own (SpecAmount)
    amount,             \* Rule.amount, the amount filter text
    testNumber,         \* the argument of the last matchAmount call
    matchResult,        \* what that call returned
    called,             \* whether matchAmount has been called
    \* --- runRules / scrapeTags (SpecRules) and main (SpecMain)
    rules,              \* Array<Rule>
    transactionObject,  \* Map<string, Transaction>, as its entries in insertion order
    calls,              \* the uncategorizedOnly argument of every runRules call so far
    loaded,             \* the transactions as constructed, before any pass
    before,             \* the transactions as they were when the last pass started
    matches,            \* the array the last runRules call returned
    tagList,            \* the column the last scrapeTags call returned
    scraped,            \* whether scrapeTags has been called
    \* --- main (SpecMain)
    pc,                 \* position in main's promise chain
    ruleSheet,          \* text of the AutoTag sheet: header row, then rule rows
    txnSheet,           \* text of the data rows of the Transactions sheet
    batchI,             \* loop variable i of the batch loop of getTransactions
    log,                \* what logLocal has appended so far
    loadFailed,         \* some host fetch of this run was rejected
    rewriteInvoked,     \* rewriteTags has been called in this run
    rewriteColumn,      \* the column rewriteTags was called with
    writeFailed,        \* the sync of rewriteTags was rejected
    unhandled           \* a rejection no handler received

vars == <<amount, testNumber, matchResult, called,
          rules, transactionObject, calls, loaded, before,
          matches, tagList, scraped,
          pc, ruleSheet, txnSheet, batchI, log, loadFailed, rewriteInvoked,
          rewriteColumn, writeFailed, unhandled>>

amountVars == <<amount, testNumber, matchResult, called>>
rulesVars  == <<rules, transactionObject, calls, loaded, before,
                matches, tagList, scraped>>
mainVars   == <<pc, ruleSheet, txnSheet, batchI, log, loadFailed, rewriteInvoked,
                rewriteColumn, writeFailed, unhandled>>

(***************************************************************************)
(* Bounds                                                                  *)
(***************************************************************************)
\* longest amount filter enumerated character by character
MaxLen == 4
\* longest rule list
MaxRules == 2
\* most transactions of a collection handed to runRules
MaxTxns == 2
\* most data rows of a Transactions sheet
MaxRows == 3
\* most runRules calls on the same transaction objects
MaxPasses == 2
\* rows per batch in getTransactions (1000 in the source, line 216), scaled down
\* so that a sheet of MaxRows rows needs more than one batch
BatchStep == 2

(***************************************************************************)
(* Text                                                                    *)
(***************************************************************************)
Digits == {"0", "1", "2", "5"}

\* the character class [-\d.] of the two regular expressions of matchAmount
NumClass == Digits \cup {"-", "."}

DigitVal(c) == CASE c = "0" -> 0 [] c = "1" -> 1 [] c = "2" -> 2 [] c = "5" -> 5

RECURSIVE Pow10(_)
Pow10(k) == IF k = 0 THEN 1 ELSE 10 * Pow10(k - 1)

\* Numbers are held in units of 1/Scale.  An amount filter of MaxLen characters has
\* at most MaxLen - 2 digits after a point (">.ddd"), so every fraction the bounds
\* allow is held exactly.
FracDigits == MaxLen - 2
Scale == Pow10(FracDigits)

\* a JavaScript number: NaN, or a finite value v / Scale
NaN == [nan |-> TRUE, v |-> 0]
Num(v) == [nan |-> FALSE, v |-> v]

\* JavaScript's >, < and >= : false as soon as one side is NaN
Gt(a, b) == ~a.nan /\ ~b.nan /\ a.v > b.v
Lt(a, b) == ~a.nan /\ ~b.nan /\ a.v < b.v
Ge(a, b) == ~a.nan /\ ~b.nan /\ a.v >= b.v

\* String.prototype.includes
Includes(s, sub) ==
    \E i \in 0..(Len(s) - Len(sub)) : SubSeq(s, i + 1, i + Len(sub)) = sub

\* length of the longest prefix of s made of characters of class
RECURSIVE Run(_, _)
Run(s, class) ==
    IF s = <<>> \/ Head(s) \notin class THEN 0 ELSE 1 + Run(Tail(s), class)

\* value of a digit string read as an integer
RECURSIVE DigitsVal(_)
DigitsVal(d) ==
    IF d = <<>> THEN 0 ELSE DigitsVal(SubSeq(d, 1, Len(d) - 1)) * 10 + DigitVal(d[Len(d)])

\* value, in units of 1/Scale, of a digit string read as the digits after the point
FracVal(d) ==
    LET k == IF Len(d) > FracDigits THEN FracDigits ELSE Len(d)
    IN  DigitsVal(SubSeq(d, 1, k)) * Pow10(FracDigits - k)

\* the global parseFloat, on text without white space, "+", exponent or "Infinity":
\* an optional "-", digits, optionally "." and digits; the longest such prefix is
\* read and the rest ignored; NaN when that prefix holds no digit.
parseFloat(s) ==
    LET neg  == s # <<>> /\ Head(s) = "-"
        body == IF neg THEN Tail(s) ELSE s
        ni   == Run(body, Digits)
        ip   == SubSeq(body, 1, ni)
        rest == SubSeq(body, ni + 1, Len(body))
        dot  == rest # <<>> /\ Head(rest) = "."
        nf   == IF dot THEN Run(Tail(rest), Digits) ELSE 0
        fp   == IF dot THEN SubSeq(rest, 2, nf + 1) ELSE <<>>
        mag  == DigitsVal(ip) * Scale + FracVal(fp)
    IN  IF ni = 0 /\ nf = 0 THEN NaN
        ELSE Num(IF neg THEN 0 - mag ELSE mag)

\* RegExp.prototype.exec for /(?:OP([-\d.]+))/ : the leftmost OP that is followed
\* by a character of the class; group 1 is the longest run of the class after it.
\* [found |-> FALSE] stands for null.
RegexBound(op, s) ==
    LET hits == {i \in 1..(Len(s) - 1) : s[i] = op /\ s[i + 1] \in NumClass}
    IN  IF hits = {} THEN [found |-> FALSE, group1 |-> <<>>]
        ELSE LET i == CHOOSE j \in hits : \A k \in hits : j <= k
                 n == Run(SubSeq(s, i + 1, Len(s)), NumClass)
             IN  [found |-> TRUE, group1 |-> SubSeq(s, i + 1, i + n)]

(***************************************************************************)
(* Rule.matchAmount                                                        *)
(***************************************************************************)
matchAmount_Inclusive(amountFilter, n) ==
    LET lowerBound == RegexBound(">", amountFilter)
        upperBound == RegexBound("<", amountFilter)
    IN  IF ~lowerBound.found /\ ~upperBound.found THEN TRUE
        ELSE IF lowerBound.found /\ upperBound.found
             THEN Ge(n, parseFloat(lowerBound.group1)) /\ Lt(n, parseFloat(upperBound.group1))
        ELSE IF lowerBound.found THEN Ge(n, parseFloat(lowerBound.group1))
        ELSE Lt(n, parseFloat(upperBound.group1))

matchAmount(amountFilter, n) ==
    LET lowerBound == RegexBound(">", amountFilter)
        upperBound == RegexBound("<", amountFilter)
    IN  IF ~lowerBound.found /\ ~upperBound.found THEN TRUE
        ELSE IF lowerBound.found /\ upperBound.found
             THEN Gt(n, parseFloat(lowerBound.group1)) /\ Lt(n, parseFloat(upperBound.group1))
        ELSE IF lowerBound.found THEN Gt(n, parseFloat(lowerBound.group1))
        ELSE Lt(n, parseFloat(upperBound.group1))

(***************************************************************************)
(* Set<string> and Map<string, Transaction>, both in insertion order       *)
(***************************************************************************)
SetHas(set, x) == \E i \in 1..Len(set) : set[i] = x

\* Array.prototype.push instead of Set.prototype.add
SetAdd_Push(set, x) == Append(set, x)

\* Set.prototype.add
SetAdd(set, x) == IF SetHas(set, x) THEN set ELSE Append(set, x)

\* Set.prototype.delete
SetDelete(set, x) == SelectSeq(set, LAMBDA e : e # x)

RECURSIVE SetAddAll(_, _)
SetAddAll(set, arr) ==
    IF arr = <<>> THEN set ELSE SetAddAll(SetAdd(set, Head(arr)), Tail(arr))

\* new Set(array)
NewSet(arr) == SetAddAll(<<>>, arr)

\* String.prototype.split(",")
RECURSIVE Split(_)
Split(s) ==
    LET commas == {i \in 1..Len(s) : s[i] = ","}
    IN  IF commas = {} THEN <<s>>
        ELSE LET i == CHOOSE j \in commas : \A k \in commas : j <= k
             IN  <<SubSeq(s, 1, i - 1)>> \o Split(SubSeq(s, i + 1, Len(s)))

\* Array.prototype.join(",")
RECURSIVE Join(_)
Join(arr) ==
    IF arr = <<>> THEN <<>>
    ELSE IF Len(arr) = 1 THEN arr[1]
    ELSE arr[1] \o <<",">> \o Join(Tail(arr))

\* String.prototype.replace(c, ""): the first occurrence only
ReplaceFirst(s, c) ==
    LET at == {i \in 1..Len(s) : s[i] = c}
    IN  IF at = {} THEN s
        ELSE LET i == CHOOSE j \in at : \A k \in at : j <= k
             IN  SubSeq(s, 1, i - 1) \o SubSeq(s, i + 1, Len(s))

\* Map.prototype.set: a new key goes last, a known key keeps its place and
\* takes the new value
MapSet(map, key, value) ==
    IF \E i \in 1..Len(map) : map[i].key = key
    THEN [i \in 1..Len(map) |->
            IF map[i].key = key THEN [key |-> key, value |-> value] ELSE map[i]]
    ELSE Append(map, [key |-> key, value |-> value])

\* Array.from(map.values())
MapValues(map) == [i \in 1..Len(map) |-> map[i].value]

(***************************************************************************)
(* class Rule, class Transaction                                           *)
(***************************************************************************)
\* new Rule(category, tagRaw, description, account, institution, amount)
Rule(category, tagRaw, description, account, institution, amountFilter) ==
    [category    |-> category,
     tag         |-> SetDelete(NewSet(Split(tagRaw)), <<>>),
     description |-> description,
     account     |-> account,
     institution |-> institution,
     amount      |-> amountFilter]

matchDescription(rule, testString) ==
    rule.description = <<>> \/ Includes(testString, rule.description)
matchAccount(rule, testString) ==
    rule.account = <<>> \/ Includes(testString, rule.account)
matchInstitution(rule, testString) ==
    rule.institution = <<>> \/ Includes(testString, rule.institution)

\* new Transaction(rowArray, address); rowArray holds the 13 columns of a row.
\* The three Date fields take no part in matching or projection and are left out.
Transaction(rowArray, address) ==
    [address         |-> address,
     description     |-> rowArray[2],
     category        |-> rowArray[3],
     tags            |-> SetDelete(NewSet(Split(rowArray[4])), <<>>),
     amount          |-> parseFloat(ReplaceFirst(rowArray[5], "$")),
     account         |-> rowArray[6],
     accountNum      |-> rowArray[7],
     institution     |-> rowArray[8],
     fullDescription |-> rowArray[11],
     checkNumber     |-> rowArray[12],
     transactionId   |-> rowArray[13],
     categorized     |-> FALSE]

\* makeRules(values): the first row is the header
RECURSIVE makeRulesRows(_)
makeRulesRows(rows) ==
    IF rows = <<>> THEN <<>>
    ELSE LET row == Head(rows)
         IN  <<Rule(row[1], row[2], row[3], row[4], row[5], row[6])>>
               \o makeRulesRows(Tail(rows))

makeRules(values) == makeRulesRows(Tail(values))

(***************************************************************************)
(* runRules                                                                *)
(***************************************************************************)
\* let ruleMatch = ...
RuleMatch(rule, transaction) ==
    /\ matchDescription(rule, transaction.description)
    /\ matchAccount(rule, transaction.account)
    /\ matchInstitution(rule, transaction.institution)
    /\ matchAmount(rule.amount, transaction.amount)

Categorizable_NoFlag(transaction, uncategorizedOnly) ==
    ~uncategorizedOnly \/ (uncategorizedOnly /\ transaction.category = "")

Categorizable_IgnoresCategory(transaction, uncategorizedOnly) ==
    ~transaction.categorized

\* let categorizable = ...
Categorizable(transaction, uncategorizedOnly) ==
    /\ ~transaction.categorized
    /\ (~uncategorizedOnly \/ (uncategorizedOnly /\ transaction.category = ""))

ApplyRule_GatedTags(transaction, rule, uncategorizedOnly) ==
    IF RuleMatch(rule, transaction) /\ Categorizable(transaction, uncategorizedOnly)
    THEN [transaction EXCEPT !.category = rule.category, !.categorized = TRUE,
                             !.tags = SetAddAll(@, rule.tag)]
    ELSE transaction

\* the body of the inner loop: one rule on one transaction
ApplyRule(transaction, rule, uncategorizedOnly) ==
    IF RuleMatch(rule, transaction)
    THEN LET t1 == IF Categorizable(transaction, uncategorizedOnly)
                   THEN [transaction EXCEPT !.category = rule.category,
                                            !.categorized = TRUE]
                   ELSE transaction
         IN  [t1 EXCEPT !.tags = SetAddAll(@, rule.tag)]
    ELSE transaction

\* the inner loop: every rule, in list order, on one transaction
RECURSIVE ApplyRules(_, _, _)
ApplyRules(transaction, ruleList, uncategorizedOnly) ==
    IF ruleList = <<>> THEN transaction
    ELSE ApplyRules(ApplyRule(transaction, Head(ruleList), uncategorizedOnly),
                    Tail(ruleList), uncategorizedOnly)

\* runRules(rules, transactionObject, uncategorizedOnly): the returned array
runRules(ruleList, map, uncategorizedOnly) ==
    LET transactions == MapValues(map)
    IN  [k \in 1..Len(transactions) |->
            ApplyRules(transactions[k], ruleList, uncategorizedOnly)]

\* the map after the call: its Transaction objects are the ones the loop mutated
MapAfterRun(map, result) ==
    [k \in 1..Len(map) |-> [key |-> map[k].key, value |-> result[k]]]

(***************************************************************************)
(* scrapeTags                                                              *)
(***************************************************************************)
\* a cell of the column: a string, or undefined (tagArray never assigned)
Undefined == [undefined |-> TRUE, text |-> <<>>]
Text(s) == [undefined |-> FALSE, text |-> s]

RECURSIVE scrapeTags_SkipsUntagged(_)
scrapeTags_SkipsUntagged(txns) ==
    IF txns = <<>> THEN <<>>
    ELSE (IF Len(Head(txns).tags) > 0 THEN <<(<<Text(Join(Head(txns).tags))>>)>> ELSE <<>>)
           \o scrapeTags_SkipsUntagged(Tail(txns))

RECURSIVE scrapeTags(_)
scrapeTags(txns) ==
    IF txns = <<>> THEN <<>>
    ELSE LET txn == Head(txns)
             tagArray == IF Len(txn.tags) > 0 THEN Text(Join(txn.tags)) ELSE Undefined
         IN  <<(<<tagArray>>)>> \o scrapeTags(Tail(txns))

(***************************************************************************)
(* Sheets                                                                  *)
(***************************************************************************)
RuleHeader == <<"Category", "Tags", "Description", "Account", "Institution", "Amount">>

\* rows of the AutoTag sheet: category, tags, description, account, institution, amount
RuleRows ==
    {<<"A", <<"x">>, <<>>, <<>>, <<>>, <<>> >>,
     <<"B", <<"y", ",", "x">>, <<"b">>, <<>>, <<>>, <<>> >>,
     <<"", <<"z">>, <<>>, <<>>, <<>>, <<">", "1">> >>,
     <<"B", <<>>, <<>>, <<"c">>, <<"d">>, <<"<", "2">> >>,
     <<"A", <<",", "y">>, <<"a", "b">>, <<>>, <<>>, <<">", "1", "<", "2">> >>}

\* a row of the Transactions sheet, in its 13 columns
TxnRow(description, category, tagsRaw, amountText, account, institution, id) ==
    <<"date", description, category, tagsRaw, amountText, account, "acct#",
      institution, "month", "week", description, "", id>>

TxnRows ==
    {TxnRow(<<"a", "b">>, "", <<>>, <<"$", "1", ".", "5">>, <<"c">>, <<"d">>, "t1"),
     TxnRow(<<"a">>, "C", <<"w">>, <<"$", "2">>, <<"c">>, <<"e">>, "t2"),
     TxnRow(<<"b">>, "", <<"x", ",", "w">>, <<"-", "$", "1">>, <<"f">>, <<"d">>, "t1"),
     TxnRow(<<>>, "C", <<>>, <<>>, <<>>, <<>>, "t3")}

Lists(S, n) == UNION {[1..k -> S] : k \in 0..n}

\* the body of the batch callback of getTransactions: the rows of one batch,
\* read from sheet index i on, are constructed and set into the map
RECURSIVE LoadBatch(_, _, _, _)
LoadBatch(map, text, i, j) ==
    IF j >= Len(text) THEN map
    ELSE LET row == text[j + 1]
             rowAddress == i + j + 1
             newRow == Transaction(row, rowAddress)
         IN  LoadBatch(MapSet(map, newRow.transactionId, newRow), text, i, j + 1)

\* values of the variables a specification does not use
IdleAmount ==
    /\ amount = <<>> /\ testNumber = NaN /\ matchResult = TRUE /\ called = FALSE
IdleRules ==
    /\ rules = <<>> /\ transactionObject = <<>> /\ calls = <<>>
    /\ loaded = <<>> /\ before = <<>> /\ matches = <<>>
    /\ tagList = <<>> /\ scraped = FALSE
IdleMain ==
    /\ pc = "idle" /\ ruleSheet = <<>> /\ txnSheet = <<>> /\ batchI = 0
    /\ log = <<>> /\ loadFailed = FALSE /\ rewriteInvoked = FALSE
    /\ rewriteColumn = <<>> /\ writeFailed = FALSE /\ unhandled = FALSE

(***************************************************************************)
(* SpecRules: runRules and scrapeTags on every small rule list and         *)
(* transaction collection                                                  *)
(***************************************************************************)
InitRules ==
    /\ \E rows \in Lists(RuleRows, MaxRules) : rules = makeRules(<<RuleHeader>> \o rows)
    /\ \E text \in Lists(TxnRows, MaxTxns) : transactionObject = LoadBatch(<<>>, text, 1, 0)
    /\ calls = <<>>
    /\ loaded = MapValues(transactionObject)
    /\ before = <<>> /\ matches = <<>> /\ tagList = <<>> /\ scraped = FALSE
    /\ IdleAmount /\ IdleMain

\* runRules(rules, transactionObject, u)
RunRulesCall ==
    /\ Len(calls) < MaxPasses
    /\ ~scraped
    /\ \E u \in BOOLEAN :
         /\ calls' = Append(calls, u)
         /\ matches' = runRules(rules, transactionObject, u)
    /\ before' = MapValues(transactionObject)
    /\ transactionObject' = MapAfterRun(transactionObject, matches')
    /\ UNCHANGED <<rules, loaded, tagList, scraped, amountVars, mainVars>>

\* scrapeTags(matches)
ScrapeTagsCall ==
    /\ Len(calls) >= 1
    /\ ~scraped
    /\ tagList' = scrapeTags(matches)
    /\ scraped' = TRUE
    /\ UNCHANGED <<rules, transactionObject, calls, loaded, before, matches,
                   amountVars, mainVars>>

NextRules == RunRulesCall \/ ScrapeTagsCall

SpecRules == InitRules /\ [][NextRules]_vars

(***************************************************************************)
(* Claims about runRules and scrapeTags                                    *)
(***************************************************************************)
TagSet(set) == {set[i] : i \in 1..Len(set)}

\* indices of the rules of ruleList that fire on transaction t
Firing(ruleList, t) == {i \in 1..Len(ruleList) : RuleMatch(ruleList[i], t)}

Least(S) == CHOOSE i \in S : \A j \in S : i <= j

LastCall == calls[Len(calls)]

\* every reordering of the rule list
Reorderings(ruleList) ==
    {[i \in 1..Len(ruleList) |-> ruleList[p[i]]] :
       p \in {q \in [1..Len(ruleList) -> 1..Len(ruleList)] :
                \A a, b \in 1..Len(ruleList) : a # b => q[a] # q[b]}}

\* the collection as loaded, keyed as getTransactions keys it
LoadedMap == [k \in 1..Len(loaded) |-> [key |-> loaded[k].transactionId, value |-> loaded[k]]]

\* C1: first match wins: after one runRules call with uncategorizedOnly = false on
\* freshly constructed transactions, each transaction's category is that of the
\* lowest-index rule that fires on it, and the loaded category if none fires.
C1_FirstMatchWins ==
    calls = <<FALSE>> =>
      \A k \in 1..Len(matches) :
        LET f == Firing(rules, loaded[k])
        IN  matches[k].category =
              IF f = {} THEN loaded[k].category ELSE rules[Least(f)].category

C1_Witness ==
    /\ calls = <<FALSE>>
    /\ \E k \in 1..Len(matches) :
         \E i, j \in Firing(rules, loaded[k]) :
           /\ i < j
           /\ rules[i].category # rules[j].category
           /\ matches[k].category = rules[i].category
           /\ matches[k].category # loaded[k].category

\* C2: after runRules, with either flag, each transaction's tag set is its initial
\* tag set united with the tags of every rule that fires on it, also of rules that
\* fire once it is categorized; and every reordering of the rule list gives the
\* same tag set.
C2_TagUnion ==
    Len(calls) = 1 =>
      \A k \in 1..Len(matches) :
        /\ TagSet(matches[k].tags) =
             TagSet(loaded[k].tags)
               \cup UNION {TagSet(rules[i].tag) : i \in Firing(rules, loaded[k])}
        /\ \A other \in Reorderings(rules) :
             TagSet(runRules(other, LoadedMap, LastCall)[k].tags) = TagSet(matches[k].tags)

C2_Witness ==
    /\ Len(calls) = 1
    /\ \E k \in 1..Len(matches) :
         \E i, j \in Firing(rules, loaded[k]) :
           /\ i < j
           /\ matches[k].categorized
           /\ \E tag \in TagSet(rules[j].tag) :
                /\ tag \notin TagSet(loaded[k].tags) \cup TagSet(rules[i].tag)
                /\ tag \in TagSet(matches[k].tags)

\* C3: with uncategorizedOnly = true a transaction whose category is non-empty
\* before the pass keeps that category and its categorized flag (false on a fresh
\* transaction), and still receives the tags of every rule that fires on it.
C3_UncategorizedOnlyKeeps ==
    (Len(calls) >= 1 /\ LastCall) =>
      \A k \in 1..Len(matches) :
        before[k].category # "" =>
          /\ matches[k].category = before[k].category
          /\ matches[k].categorized = before[k].categorized
          /\ Len(calls) = 1 => ~matches[k].categorized
          /\ \A i \in Firing(rules, before[k]) :
               TagSet(rules[i].tag) \subseteq TagSet(matches[k].tags)

C3_Witness ==
    /\ calls = <<TRUE>>
    /\ \E k \in 1..Len(matches) :
         /\ before[k].category # ""
         /\ \E i \in Firing(rules, before[k]) :
              /\ rules[i].category \notin {"", before[k].category}
              /\ ~(TagSet(rules[i].tag) \subseteq TagSet(before[k].tags))
         /\ matches[k].category = before[k].category

\* C4: idempotence: a second runRules call with the same rules and
\* uncategorizedOnly = false on the same transaction objects leaves every
\* category and every tag set as the first call left it.
C4_Idempotent ==
    (Len(calls) >= 2 /\ ~LastCall /\ ~calls[Len(calls) - 1]) =>
      \A k \in 1..Len(matches) :
        /\ matches[k].category = before[k].category
        /\ matches[k].tags = before[k].tags

C4_Witness ==
    /\ calls = <<FALSE, FALSE>>
    /\ \E k \in 1..Len(matches) :
         /\ Cardinality(Firing(rules, loaded[k])) >= 2
         /\ matches[k].category # loaded[k].category
         /\ Len(matches[k].tags) > Len(loaded[k].tags)

\* C5: a firing rule with an empty category changes no category: when every rule
\* that fires on a transaction has category "", the transaction's category after
\* runRules is its category before the pass, for either flag.
C5_EmptyCategoryNoChange ==
    Len(calls) >= 1 =>
      \A k \in 1..Len(matches) :
        (\A i \in Firing(rules, before[k]) : rules[i].category = "") =>
          matches[k].category = before[k].category

\* C9: scrapeTags returns one single-cell row per transaction, the k-th row from
\* the k-th transaction: undefined when it has no tags, else the text that splits
\* at its commas into exactly the transaction's tags in insertion order.
C9_Projection ==
    scraped =>
      /\ Len(tagList) = Len(matches)
      /\ \A k \in 1..Len(tagList) :
           /\ Len(tagList[k]) = 1
           /\ IF matches[k].tags = <<>>
              THEN tagList[k][1] = Undefined
              ELSE /\ ~tagList[k][1].undefined
                   /\ Split(tagList[k][1].text) = matches[k].tags

C9_Witness ==
    /\ scraped
    /\ \E a, b \in 1..Len(matches) :
         /\ a < b
         /\ matches[a].tags = <<>>
         /\ Len(matches[b].tags) >= 2
         /\ tagList[b][1].text = Join(matches[b].tags)

(***************************************************************************)
(* SpecAmount: matchAmount applied to every short amount filter            *)
(***************************************************************************)
AmountChars == {">", "<", "-", ".", "1", "2", "a"}

Texts(chars, n) == UNION {[1..k -> chars] : k \in 0..n}

Range100To200 == <<">", "1", "0", "0", "<", "2", "0", "0">>

AmountFilters == Texts(AmountChars, MaxLen) \cup {Range100To200}

\* i + t/10 as a number
Dec(i, t) == Num(i * Scale + t * (Scale \div 10))

TestNumbers ==
    {NaN, Dec(0, 0), Dec(1, 0), Dec(1, 5), Dec(2, 0), Dec(2, 5), Num(0 - Dec(1, 5).v),
     Dec(100, 0), Dec(150, 0), Dec(200, 0), Dec(250, 0)}

InitAmount ==
    /\ amount \in AmountFilters
    /\ testNumber = NaN /\ matchResult = TRUE /\ called = FALSE
    /\ IdleRules /\ IdleMain

\* rule.matchAmount(n)
MatchAmountCall ==
    /\ \E n \in TestNumbers :
         /\ testNumber' = n
         /\ matchResult' = matchAmount(amount, n)
    /\ called' = TRUE
    /\ UNCHANGED <<amount, rulesVars, mainVars>>

NextAmount == MatchAmountCall

SpecAmount == InitAmount /\ [][NextAmount]_vars

(***************************************************************************)
(* Claims about matchAmount                                                *)
(***************************************************************************)
DigitChar(i) == CASE i = 0 -> "0" [] i = 1 -> "1" [] i = 2 -> "2" [] i = 5 -> "5"

\* signed decimal numerals written out from their value: [-]i or [-]i.t
Numerals ==
    {[text |-> (IF neg THEN <<"-">> ELSE <<>>) \o <<DigitChar(i)>>
                 \o (IF t = 0 THEN <<>> ELSE <<".", DigitChar(t)>>),
      val  |-> Num((IF neg THEN 0 - 1 ELSE 1) * Dec(i, t).v)]
       : neg \in BOOLEAN, i \in {1, 2}, t \in {0, 1, 2}}

HasNoOperator(s) == \A i \in 1..Len(s) : s[i] \notin {">", "<"}

\* C7: matchAmount applies strictly exclusive bounds: no bound gives true, ">L"
\* gives n > L, "<U" gives n < U, ">L<U" gives both, an inverted pair gives false
\* for every n, and ">100<200" accepts 150 and rejects 100, 200 and 250.
C7_ExclusiveBounds ==
    called =>
      /\ HasNoOperator(amount) => matchResult = TRUE
      /\ \A L \in Numerals :
            amount = <<">">> \o L.text => matchResult = Gt(testNumber, L.val)
      /\ \A U \in Numerals :
            amount = <<"<">> \o U.text => matchResult = Lt(testNumber, U.val)
      /\ \A L, U \in Numerals :
            amount = <<">">> \o L.text \o <<"<">> \o U.text =>
              /\ matchResult = (Gt(testNumber, L.val) /\ Lt(testNumber, U.val))
              /\ L.val.v >= U.val.v => matchResult = FALSE
      /\ amount = Range100To200 =>
            /\ testNumber = Dec(150, 0) => matchResult = TRUE
            /\ testNumber \in {Dec(100, 0), Dec(200, 0), Dec(250, 0)} => matchResult = FALSE

C7_Witness ==
    called /\ amount = Range100To200 /\ testNumber = Dec(200, 0) /\ matchResult = FALSE

\* an operator followed only by characters from which no number can be read
NoNumberAfterOperator(s) ==
    /\ Len(s) >= 2
    /\ s[1] \in {">", "<"}
    /\ \A i \in 2..Len(s) : s[i] \in {"-", ".", "a"}

\* C8: a malformed amount expression means "no bound": when the text after the
\* operator is no number (">-", ">.", ">a"), matchAmount returns true for every
\* amount.
C8_MalformedIsNoBound ==
    (called /\ NoNumberAfterOperator(amount)) => matchResult = TRUE

(***************************************************************************)
(* SpecMain: main(), one run of the promise chain.  Every context.sync()   *)
(* either resolves or is rejected by the host.                             *)
(***************************************************************************)
\* txnShape["rowCount"]: the header row and the data rows
RowCount == Len(txnSheet) + 1

\* sheet.text of the batch read at index i: getRangeByIndexes(i, 0, step, ...)
\* cut down to the rows in use
BatchText(i) ==
    SubSeq(txnSheet, i, IF i + BatchStep - 1 < Len(txnSheet)
                        THEN i + BatchStep - 1 ELSE Len(txnSheet))

\* logLocal(logString)
logLocal(entry) == log' = Append(log, entry)

InitMain ==
    /\ \E rows \in Lists(RuleRows, MaxRules) : ruleSheet = <<RuleHeader>> \o rows
    /\ txnSheet \in Lists(TxnRows, MaxRows)
    /\ pc = "getTagColumns"
    /\ batchI = 0 /\ log = <<>> /\ loadFailed = FALSE /\ rewriteInvoked = FALSE
    /\ rewriteColumn = <<>> /\ writeFailed = FALSE /\ unhandled = FALSE
    /\ IdleRules /\ IdleAmount

\* a rejection that reaches the .catch at the end of main's chain
Rejected(entry) ==
    /\ logLocal(entry)
    /\ loadFailed' = TRUE
    /\ pc' = "done"
    /\ UNCHANGED <<ruleSheet, txnSheet, batchI, rewriteInvoked, rewriteColumn,
                   writeFailed, unhandled, rulesVars, amountVars>>

Step(next) ==
    /\ pc' = next
    /\ UNCHANGED <<ruleSheet, txnSheet, batchI, log, loadFailed, rewriteInvoked,
                   rewriteColumn, writeFailed, unhandled, rulesVars, amountVars>>

\* getTagColumns()
GetTagColumns ==
    /\ pc = "getTagColumns"
    /\ Step("getTagLastRow")

GetTagColumnsRejected ==
    /\ pc = "getTagColumns"
    /\ Rejected("getTagColumns rejected")

\* getTagLastRow()
GetTagLastRow ==
    /\ pc = "getTagLastRow"
    /\ Step("getAutoTagData")

GetTagLastRowRejected ==
    /\ pc = "getTagLastRow"
    /\ Rejected("getTagLastRow rejected")

\* getAutoTagData(): rules = makeRules(sheet.text)
GetAutoTagData ==
    /\ pc = "getAutoTagData"
    /\ rules' = makeRules(ruleSheet)
    /\ pc' = "getShape"
    /\ UNCHANGED <<transactionObject, calls, loaded, before, matches, tagList, scraped,
                   ruleSheet, txnSheet, batchI, log, loadFailed, rewriteInvoked,
                   rewriteColumn, writeFailed, unhandled, amountVars>>

\* its sync has no catch: the rejection leaves getAutoTagData
GetAutoTagDataRejected ==
    /\ pc = "getAutoTagData"
    /\ Rejected("getAutoTagData rejected")

\* getTransactions(), first Excel.run: txnShape is read
GetShape ==
    /\ pc = "getShape"
    /\ Step("getHeader")

\* its catch swallows the rejection and txnShape stays undefined; the next
\* Excel.run throws on txnShape["columnCount"], which rejects getTransactions
GetShapeRejected ==
    /\ pc = "getShape"
    /\ Rejected("TypeError: txnShape is undefined")

\* second Excel.run: the header row is read, then the batch loop starts at i = 1
GetHeader ==
    /\ pc = "getHeader"
    /\ batchI' = 1
    /\ pc' = "batch"
    /\ UNCHANGED <<ruleSheet, txnSheet, log, loadFailed, rewriteInvoked, rewriteColumn,
                   writeFailed, unhandled, rulesVars, amountVars>>

GetHeaderRejected ==
    /\ pc = "getHeader"
    /\ Rejected("getTransactions header rejected")

\* one round of the batch loop whose sync resolves
BatchLoaded ==
    /\ pc = "batch"
    /\ batchI < RowCount
    /\ transactionObject' = LoadBatch(transactionObject, BatchText(batchI), batchI, 0)
    /\ batchI' = batchI + BatchStep
    /\ UNCHANGED <<rules, calls, loaded, before, matches, tagList, scraped,
                   pc, ruleSheet, txnSheet, log, loadFailed, rewriteInvoked,
                   rewriteColumn, writeFailed, unhandled, amountVars>>

\* one round whose sync is rejected: the catch in the loop logs it and the loop
\* goes on with the next batch
BatchRejected ==
    /\ pc = "batch"
    /\ batchI < RowCount
    /\ logLocal("batch rejected")
    /\ loadFailed' = TRUE
    /\ batchI' = batchI + BatchStep
    /\ UNCHANGED <<pc, ruleSheet, txnSheet, rewriteInvoked, rewriteColumn,
                   writeFailed, unhandled, rulesVars, amountVars>>

\* the loop ends and getTransactions returns txnPaginator
GetTransactionsReturns ==
    /\ pc = "batch"
    /\ batchI >= RowCount
    /\ Step("runRules")

\* runRules(autoTagData, txnResult, false)
MainRunRules ==
    /\ pc = "runRules"
    /\ log' = log \o <<"Running with rules and transactions",
                       "Only running uncategorized transactions?: false">>
    /\ calls' = Append(calls, FALSE)
    /\ loaded' = MapValues(transactionObject)
    /\ before' = MapValues(transactionObject)
    /\ matches' = runRules(rules, transactionObject, FALSE)
    /\ transactionObject' = MapAfterRun(transactionObject, matches')
    /\ pc' = "scrapeTags"
    /\ UNCHANGED <<rules, tagList, scraped, ruleSheet, txnSheet, batchI, loadFailed,
                   rewriteInvoked, rewriteColumn, writeFailed, unhandled, amountVars>>

\* scrapeTags(ruleResult)
MainScrapeTags ==
    /\ pc = "scrapeTags"
    /\ tagList' = scrapeTags(matches)
    /\ scraped' = TRUE
    /\ pc' = "rewriteTags"
    /\ UNCHANGED <<rules, transactionObject, calls, loaded, before, matches,
                   ruleSheet, txnSheet, batchI, log, loadFailed, rewriteInvoked,
                   rewriteColumn, writeFailed, unhandled, amountVars>>

\* rewriteTags(rewriteAddress, tagResult), its sync resolving
RewriteTags ==
    /\ pc = "rewriteTags"
    /\ rewriteInvoked' = TRUE
    /\ rewriteColumn' = tagList
    /\ pc' = "done"
    /\ UNCHANGED <<ruleSheet, txnSheet, batchI, log, loadFailed, writeFailed,
                   unhandled, rulesVars, amountVars>>

\* its sync rejected: the callback does not return the promise of rewriteTags,
\* so the rejection reaches no handler of the chain
RewriteTagsRejected ==
    /\ pc = "rewriteTags"
    /\ rewriteInvoked' = TRUE
    /\ rewriteColumn' = tagList
    /\ writeFailed' = TRUE
    /\ unhandled' = TRUE
    /\ pc' = "done"
    /\ UNCHANGED <<ruleSheet, txnSheet, batchI, log, loadFailed, rulesVars, amountVars>>

NextMain ==
    \/ GetTagColumns \/ GetTagColumnsRejected
    \/ GetTagLastRow \/ GetTagLastRowRejected
    \/ GetAutoTagData \/ GetAutoTagDataRejected
    \/ GetShape \/ GetShapeRejected
    \/ GetHeader \/ GetHeaderRejected
    \/ BatchLoaded \/ BatchRejected \/ GetTransactionsReturns
    \/ MainRunRules \/ MainScrapeTags
    \/ RewriteTags \/ RewriteTagsRejected

SpecMain == InitMain /\ [][NextMain]_vars

(***************************************************************************)
(* Claims about main                                                       *)
(***************************************************************************)
\* C6: when a host fetch of the load fails (a batch read of getTransactions, the
\* rule fetch) the run stops there and rewriteTags is never invoked in that run;
\* and a failure of the write itself is logged, not left unhandled.
C6_FailedLoadStopsRun == loadFailed => ~rewriteInvoked

\* C6, its last clause: a rejected write is logged and reaches a handler
C6_WriteFailureLogged ==
    writeFailed => (\E i \in 1..Len(log) : log[i] = "rewriteTags rejected") /\ ~unhandled

\* C10: write-back alignment: the column handed to rewriteTags for rows
\* 2..lastRow has one cell per data row, and its k-th cell holds the tags of the
\* transaction whose rowAddress is k + 1, also when rows share a transactionId.
C10_WriteBackAligned ==
    (rewriteInvoked /\ ~loadFailed) =>
      /\ Len(rewriteColumn) = Len(txnSheet)
      /\ \A k \in 1..Len(rewriteColumn) :
           /\ matches[k].address = k + 1
           /\ rewriteColumn[k] = scrapeTags(<<matches[k]>>)[1]

====
